---------------------------- MODULE Spec2Model ----------------------------
(***************************************************************************)
(* Order statistics and ranking over f64 slices, as implemented in         *)
(* src/src/statistics/slice_statistics.rs (impl Statistics for [f64],      *)
(* select_inplace, sort, quick_sort, quick_sort_all, handle_rank_ties),    *)
(* and the continuous uniform distribution of                              *)
(* src/src/distribution/uniform.rs.                                        *)
(*                                                                         *)
(* f64 values are fixed-point integers counting 1/Unit; +inf, -inf and NaN *)
(* are distinguished integers handled by the F* operators the way IEEE 754 *)
(* handles them.  The order statistics meet only exact multiples of        *)
(* 1/Unit; products, quotients and square roots that are not (FMul, FDiv,  *)
(* FSqrt) are cut to a neighbouring one.  These operators and the usize    *)
(* ones model the language's types, not one place of the program.          *)
(* Arrays are 1-based sequences indexed with the code's 0-based indices    *)
(* through At/Put/Swap.  usize arithmetic keeps a width (UsizeBits): a     *)
(* debug build panics on overflow, a release build wraps; an unchecked     *)
(* read outside the slice is undefined behaviour.                          *)
(***************************************************************************)
EXTENDS Integers, Sequences, FiniteSets, TLC

\* ------------------------------------------------------------- bounds
MaxLen == 4
MaxVal == 1
MaxCalls == 2
UsizeBits == 16

\* ------------------------------------------------- program constants
PercentDen == 100
InsertionMax == 10

\* ---------------------------------------------------------------- f64
Unit == 3 * PercentDen
PosInf == 1000 * Unit
NegInf == -PosInf
NaN == 2 * PosInf

IsNaN(x) == x = NaN
IsInf(x) == x = PosInf \/ x = NegInf
FLt(x, y) == x # NaN /\ y # NaN /\ x < y
FGt(x, y) == x # NaN /\ y # NaN /\ x > y
FLe(x, y) == x # NaN /\ y # NaN /\ x <= y
FGe(x, y) == x # NaN /\ y # NaN /\ x >= y
FEq(x, y) == x # NaN /\ y # NaN /\ x = y
FNeg(x) == IF x = NaN THEN NaN ELSE -x
FAdd(x, y) ==
    IF x = NaN \/ y = NaN THEN NaN
    ELSE IF IsInf(x) THEN (IF IsInf(y) /\ y # x THEN NaN ELSE x)
    ELSE IF IsInf(y) THEN y
    ELSE x + y
FSub(x, y) == FAdd(x, FNeg(y))
FSign(x) == IF x > 0 THEN 1 ELSE IF x < 0 THEN -1 ELSE 0
FMul(x, y) ==
    IF x = NaN \/ y = NaN THEN NaN
    ELSE IF IsInf(x) \/ IsInf(y)
         THEN (IF x = 0 \/ y = 0 THEN NaN
               ELSE IF FSign(x) * FSign(y) > 0 THEN PosInf ELSE NegInf)
    ELSE (x * y) \div Unit
\* x / k for a finite positive integer k
FDivInt(x, k) == IF x = NaN \/ IsInf(x) THEN x ELSE x \div k
FAbs(x) == IF x = NaN THEN NaN ELSE IF x < 0 THEN -x ELSE x
\* n as f64
FromInt(n) == n * Unit
\* x as i64, for finite x: truncation toward zero
Trunc(x) == IF x >= 0 THEN x \div Unit ELSE -((-x) \div Unit)

\* -------------------------------------------------------------- usize
UsizeModulus == 2 ^ UsizeBits
\* a - b on usize: ovf is the debug build's panic, val the release build's wrap
USub(a, b) == [val |-> (a - b) % UsizeModulus, ovf |-> a < b]
UAdd(a, b) == [val |-> (a + b) % UsizeModulus, ovf |-> a + b >= UsizeModulus]
\* j as usize, j an isize
AsUsize(j) == j % UsizeModulus
\* x as isize, x a usize
AsIsize(x) == IF x >= UsizeModulus \div 2 THEN x - UsizeModulus ELSE x

\* ------------------------------------------------------------- slices
InRange(arr, i) == 0 <= i /\ i < Len(arr)
At(arr, i) == arr[i + 1]
Put(arr, i, v) == [arr EXCEPT ![i + 1] = v]
Swap(arr, i, j) == [arr EXCEPT ![i + 1] = arr[j + 1], ![j + 1] = arr[i + 1]]

\* ------------------------------------------------------------ min, max
\* a minimum that looks at the first element only
MinOfFirst(arr) == IF Len(arr) = 0 THEN NaN ELSE arr[1]

RECURSIVE MinFold(_, _, _)
MinFold(arr, i, acc) ==
    IF i > Len(arr) THEN acc
    ELSE MinFold(arr, i + 1, IF FLt(arr[i], acc) \/ IsNaN(arr[i]) THEN arr[i] ELSE acc)

Min(arr) == IF Len(arr) = 0 THEN NaN ELSE MinFold(arr, 1, PosInf)

RECURSIVE MaxFold(_, _, _)
MaxFold(arr, i, acc) ==
    IF i > Len(arr) THEN acc
    ELSE MaxFold(arr, i + 1, IF FGt(arr[i], acc) \/ IsNaN(arr[i]) THEN arr[i] ELSE acc)

Max(arr) == IF Len(arr) = 0 THEN NaN ELSE MaxFold(arr, 1, NegInf)


\* ------------------------------------------------------ select_inplace
\* A call's outcome: the slice as left, the value returned, and how the call
\* ended: "none" (returned), "panic", or "ub" (an unchecked access outside the
\* slice; the wrapped index of a release build always lands outside).
Returned(arr, v) == [arr |-> arr, ret |-> v, fault |-> "none"]
Faulted(arr, f) == [arr |-> arr, ret |-> NaN, fault |-> f]
Stopped(i, f) == [i |-> i, fault |-> f]

\* a scan that runs past elements equal to the pivot
StopBeginStrict(x, pivot) == FGt(x, pivot)

\* the test that ends the upward scan
StopBegin(x, pivot) == FGe(x, pivot)
\* the test that ends the downward scan
StopEnd(x, pivot) == FLe(x, pivot)

\* loop { begin += 1; if arr[begin] >= pivot { break } }
RECURSIVE ScanBegin(_, _, _, _)
ScanBegin(arr, begin, pivot, dbg) ==
    LET b == UAdd(begin, 1) IN
    IF b.ovf /\ dbg THEN Stopped(b.val, "panic")
    ELSE IF ~InRange(arr, b.val) THEN Stopped(b.val, "ub")
    ELSE IF StopBegin(At(arr, b.val), pivot) THEN Stopped(b.val, "none")
    ELSE ScanBegin(arr, b.val, pivot, dbg)

\* loop { end -= 1; if arr[end] <= pivot { break } }
RECURSIVE ScanEnd(_, _, _, _)
ScanEnd(arr, end, pivot, dbg) ==
    LET e == USub(end, 1) IN
    IF e.ovf /\ dbg THEN Stopped(e.val, "panic")
    ELSE IF ~InRange(arr, e.val) THEN Stopped(e.val, "ub")
    ELSE IF StopEnd(At(arr, e.val), pivot) THEN Stopped(e.val, "none")
    ELSE ScanEnd(arr, e.val, pivot, dbg)

Parted(arr, begin, end, f) == [arr |-> arr, begin |-> begin, end |-> end, fault |-> f]

\* the partition loop: scan up (u), scan down (d), stop when crossed, else swap
RECURSIVE Partition(_, _, _, _, _)
PartitionCrossed(arr, pivot, dbg, u, d) ==
    IF d.fault # "none" THEN Parted(arr, u.i, d.i, d.fault)
    ELSE IF d.i < u.i THEN Parted(arr, u.i, d.i, "none")
    ELSE Partition(Swap(arr, u.i, d.i), u.i, d.i, pivot, dbg)

PartitionDown(arr, end, pivot, dbg, u) ==
    IF u.fault # "none" THEN Parted(arr, u.i, end, u.fault)
    ELSE PartitionCrossed(arr, pivot, dbg, u, ScanEnd(arr, end, pivot, dbg))

Partition(arr, begin, end, pivot, dbg) ==
    PartitionDown(arr, end, pivot, dbg, ScanBegin(arr, begin, pivot, dbg))

\* if arr[i] > arr[j] { arr.swap(i, j) }
SwapIfGreater(arr, i, j) == IF FGt(At(arr, i), At(arr, j)) THEN Swap(arr, i, j) ELSE arr

\* median of three: order arr[low], arr[low + 1], arr[high]
MedianOfThree(arr, low, high) ==
    SwapIfGreater(SwapIfGreater(SwapIfGreater(arr, low, high), low + 1, high), low, low + 1)

\* the pivot written back without moving arr[end] out of its way first
PlacePivotOnly(arr, low, end, pivot) == Put(arr, end, pivot)

\* arr[low + 1] = arr[end]; arr[end] = pivot
PlacePivot(arr, low, end, pivot) == Put(Put(arr, low + 1, At(arr, end)), end, pivot)

\* if end >= rank { high = end - 1 }   (rank >= 1 here, so end - 1 >= 0)
NextHigh(high, end, rank) == IF end >= rank THEN end - 1 ELSE high

\* a window whose lower end never moves
NextLowStays(low, begin, end, rank) == low

\* if end <= rank { low = begin }
NextLow(low, begin, end, rank) == IF end <= rank THEN begin ELSE low

\* a last step that forgets to order the two elements left
SelectLastNoSwap(arr, low, high, rank) == Returned(arr, At(arr, rank))

\* the window is down to one or two elements: order them, return arr[rank]
SelectLast(arr, low, high, rank) ==
    IF high = low + 1 /\ FLt(At(arr, high), At(arr, low))
    THEN Returned(Swap(arr, low, high), At(Swap(arr, low, high), rank))
    ELSE Returned(arr, At(arr, rank))

\* the outer loop over the window [low, high]
RECURSIVE SelectLoop(_, _, _, _, _)
SelectNarrow(pt, pivot, low, high, rank, dbg) ==
    IF pt.fault # "none" THEN Faulted(pt.arr, pt.fault)
    ELSE SelectLoop(PlacePivot(pt.arr, low, pt.end, pivot),
                    NextLow(low, pt.begin, pt.end, rank),
                    NextHigh(high, pt.end, rank), rank, dbg)

SelectPivot(arr, low, high, rank, dbg) ==
    SelectNarrow(Partition(arr, low + 1, high, At(arr, low + 1), dbg),
                 At(arr, low + 1), low, high, rank, dbg)

SelectLoop(arr, low, high, rank, dbg) ==
    IF high <= low + 1 THEN SelectLast(arr, low, high, rank)
    ELSE LET middle == (low + high) \div 2 IN
         IF ~InRange(arr, middle) \/ ~InRange(arr, low + 1) THEN Faulted(arr, "panic")
         ELSE IF ~InRange(arr, low) \/ ~InRange(arr, high) THEN Faulted(arr, "ub")
         ELSE SelectPivot(MedianOfThree(Swap(arr, middle, low + 1), low, high),
                          low, high, rank, dbg)

\* a shortcut that also takes rank = len - 1 and leaves the slice as it is
SelectInplaceLastShortcut(arr, rank, dbg) ==
    IF rank = 0 THEN Returned(arr, Min(arr))
    ELSE LET last == USub(Len(arr), 1) IN
         IF last.ovf /\ dbg THEN Faulted(arr, "panic")
         ELSE IF rank >= last.val THEN Returned(arr, Max(arr))
         ELSE SelectLoop(arr, 0, last.val, rank, dbg)

SelectInplace(arr, rank, dbg) ==
    IF rank = 0 THEN Returned(arr, Min(arr))
    ELSE LET last == USub(Len(arr), 1) IN
         IF last.ovf /\ dbg THEN Faulted(arr, "panic")
         ELSE IF rank > last.val THEN Returned(arr, Max(arr))
         ELSE SelectLoop(arr, 0, last.val, rank, dbg)

\* two selections, the second on the slice as the first left it
SelectSecond(x, rank, dbg, y) ==
    [arr |-> y.arr, a |-> x.ret, b |-> y.ret, fault |-> y.fault]

SelectFirst(x, rank, dbg) ==
    IF x.fault # "none" THEN [arr |-> x.arr, a |-> NaN, b |-> NaN, fault |-> x.fault]
    ELSE SelectSecond(x, rank, dbg, SelectInplace(x.arr, rank, dbg))

SelectTwice(arr, rank1, rank2, dbg) ==
    SelectFirst(SelectInplace(arr, rank1, dbg), rank2, dbg)

\* ------------------------------------- order_statistic, median, quantile
SaturatingSub(a, b) == IF a < b THEN 0 ELSE a - b

\* the one-based order handed to the zero-based selection as it is
OrderStatisticOneBased(arr, order, dbg) ==
    IF order = 1 THEN Returned(arr, Min(arr))
    ELSE IF order = Len(arr) THEN Returned(arr, Max(arr))
    ELSE IF order < 1 \/ order > Len(arr) THEN Returned(arr, NaN)
    ELSE SelectInplace(arr, order, dbg)

\* no upper range check on the order
OrderStatisticNoUpper(arr, order, dbg) ==
    IF order = 1 THEN Returned(arr, Min(arr))
    ELSE IF order = Len(arr) THEN Returned(arr, Max(arr))
    ELSE IF order < 1 THEN Returned(arr, NaN)
    ELSE SelectInplace(arr, order - 1, dbg)

OrderStatistic(arr, order, dbg) ==
    IF order = 1 THEN Returned(arr, Min(arr))
    ELSE IF order = Len(arr) THEN Returned(arr, Max(arr))
    ELSE IF order < 1 \/ order > Len(arr) THEN Returned(arr, NaN)
    ELSE SelectInplace(arr, order - 1, dbg)

\* (a + b) / 2.0
MedianMean(t) ==
    IF t.fault # "none" THEN Faulted(t.arr, t.fault)
    ELSE Returned(t.arr, FDivInt(FAdd(t.a, t.b), 2))

\* the middle rank taken one-based
MedianRankOneBased(n) == n \div 2 + 1

\* the rank median selects for odd length: k = len / 2
MedianRank(n) == n \div 2

Median(arr, dbg) ==
    IF Len(arr) % 2 # 0 THEN SelectInplace(arr, MedianRank(Len(arr)), dbg)
    ELSE MedianMean(SelectTwice(arr, SaturatingSub(MedianRank(Len(arr)), 1),
                                MedianRank(Len(arr)), dbg))

\* 1.0 / 3.0
OneThird == Unit \div 3

\* h = (len + 1/3) * tau + 1/3
QuantileH(n, tau) == FAdd(FMul(FAdd(FromInt(n), OneThird), tau), OneThird)

\* no upper range check on tau
QuantileUndefinedNoUpper(n, tau) == FLt(tau, 0) \/ n = 0

\* tau < 0.0 || tau > 1.0 || self.len() == 0
QuantileUndefined(n, tau) == FLt(tau, 0) \/ FGt(tau, FromInt(1)) \/ n = 0

\* the interpolation with the difference taken the wrong way round
InterpolateReversed(t, h, hf) ==
    IF t.fault # "none" THEN Faulted(t.arr, t.fault)
    ELSE Returned(t.arr, FAdd(t.a, FMul(FSub(h, FromInt(hf)), FSub(t.a, t.b))))

\* a + (h - hf as f64) * (b - a)
Interpolate(t, h, hf) ==
    IF t.fault # "none" THEN Faulted(t.arr, t.fault)
    ELSE Returned(t.arr, FAdd(t.a, FMul(FSub(h, FromInt(hf)), FSub(t.b, t.a))))

QuantileAt(arr, tau, h, hf, dbg) ==
    IF QuantileUndefined(Len(arr), tau) THEN Returned(arr, NaN)
    ELSE IF hf <= 0 \/ FEq(tau, 0) THEN Returned(arr, Min(arr))
    ELSE IF hf >= Len(arr) \/ FEq(tau, FromInt(1)) THEN Returned(arr, Max(arr))
    ELSE Interpolate(SelectTwice(arr, SaturatingSub(hf, 1), hf, dbg), h, hf)

Quantile(arr, tau, dbg) ==
    QuantileAt(arr, tau, QuantileH(Len(arr), tau), Trunc(QuantileH(Len(arr), tau)), dbg)

Percentile(arr, p, dbg) == Quantile(arr, FDivInt(FromInt(p), PercentDen), dbg)

\* self.quantile(0.25)
LowerQuartile(arr, dbg) == Quantile(arr, FDivInt(FromInt(1), 4), dbg)

\* self.quantile(0.75)
UpperQuartile(arr, dbg) == Quantile(arr, FDivInt(FromInt(3), 4), dbg)

\* self.upper_quartile() - self.lower_quartile(): the upper quartile u is taken
\* first, the lower one on the slice as that call left it
IqrLower(u, dbg) ==
    IF u.fault # "none" THEN u
    ELSE [LowerQuartile(u.arr, dbg) EXCEPT !.ret = FSub(u.ret, @)]

InterquartileRange(arr, dbg) == IqrLower(UpperQuartile(arr, dbg), dbg)

\* ------------------------------------------- sort, quick_sort, quick_sort_all
\* The state of a dual-array sort: the primary slice p, the secondary slice s
\* and how the call ended.
Sorted2(p, s) == [p |-> p, s |-> s, fault |-> "none"]
Faulted2(p, s, f) == [p |-> p, s |-> s, fault |-> f]
\* a swap that copies one index over the other
Swap2Copy(p, s, i, j) == [p |-> Swap(p, i, j), s |-> Put(s, i, At(s, j))]

\* a swap that forgets the secondary slice
Swap2PrimaryOnly(p, s, i, j) == [p |-> Swap(p, i, j), s |-> s]

Swap2(p, s, i, j) == [p |-> Swap(p, i, j), s |-> Swap(s, i, j)]

\* while j >= 0 && primary[j] > key { shift one place up; j -= 1 }
RECURSIVE Shift(_, _, _, _)
Shift(p, s, j, key) ==
    IF j >= 0 /\ FGt(At(p, j), key)
    THEN Shift(Put(p, j + 1, At(p, j)), Put(s, j + 1, At(s, j)), j - 1, key)
    ELSE [p |-> p, s |-> s, j |-> j]

\* j as usize + 1, the place the key goes to (j is an isize, -1 when the key
\* is smaller than everything before it)
InsertSlot(j) == UAdd(AsUsize(j), 1)

\* for i in 1..n { key, item; shift; primary[j + 1] = key; secondary[j + 1] = item }
RECURSIVE InsertionSort(_, _, _, _)
InsertKey(sh, slot, key, item, i, dbg) ==
    IF slot.ovf /\ dbg THEN Faulted2(sh.p, sh.s, "panic")
    ELSE IF ~InRange(sh.p, slot.val) THEN Faulted2(sh.p, sh.s, "panic")
    ELSE InsertionSort(Put(sh.p, slot.val, key), Put(sh.s, slot.val, item), i + 1, dbg)

InsertShifted(sh, key, item, i, dbg) == InsertKey(sh, InsertSlot(sh.j), key, item, i, dbg)

InsertionSort(p, s, i, dbg) ==
    IF i >= Len(p) THEN Sorted2(p, s)
    ELSE InsertShifted(Shift(p, s, i - 1, At(p, i)), At(p, i), At(s, i), i, dbg)

\* element i sorts after element j: primary[i] > primary[j], and in
\* quick_sort_all (all) also primary equal and secondary[i] > secondary[j]
After(p, s, i, j, all) ==
    FGt(At(p, i), At(p, j)) \/ (all /\ FEq(At(p, i), At(p, j)) /\ At(s, i) > At(s, j))

OrderPair(st, i, j, all) ==
    IF After(st.p, st.s, i, j, all) THEN Swap2(st.p, st.s, i, j) ELSE st

\* the left scan goes on: primary[a] < pivot1 (|| equal && secondary[a] < pivot2)
BelowPivot(x, xi, pivot1, pivot2, all) ==
    FLt(x, pivot1) \/ (all /\ FEq(x, pivot1) /\ xi < pivot2)

\* the right scan goes on: pivot1 < primary[b] (|| equal && pivot2 < secondary[b])
AbovePivot(x, xi, pivot1, pivot2, all) ==
    FLt(pivot1, x) \/ (all /\ FEq(pivot1, x) /\ pivot2 < xi)

\* while primary[a] < pivot { a += 1 }
RECURSIVE ScanA(_, _, _, _, _, _, _)
ScanA(p, s, a, pivot1, pivot2, all, dbg) ==
    IF ~InRange(p, a) THEN Stopped(a, "ub")
    ELSE IF ~BelowPivot(At(p, a), At(s, a), pivot1, pivot2, all) THEN Stopped(a, "none")
    ELSE IF UAdd(a, 1).ovf /\ dbg THEN Stopped(a, "panic")
    ELSE ScanA(p, s, UAdd(a, 1).val, pivot1, pivot2, all, dbg)

\* while pivot < primary[b] { b -= 1 }
RECURSIVE ScanB(_, _, _, _, _, _, _)
ScanB(p, s, b, pivot1, pivot2, all, dbg) ==
    IF ~InRange(p, b) THEN Stopped(b, "ub")
    ELSE IF ~AbovePivot(At(p, b), At(s, b), pivot1, pivot2, all) THEN Stopped(b, "none")
    ELSE IF USub(b, 1).ovf /\ dbg THEN Stopped(b, "panic")
    ELSE ScanB(p, s, USub(b, 1).val, pivot1, pivot2, all, dbg)

\* b -= 1 after the swap of the Hoare loop
StepDown(b) == USub(b, 1)

Split(p, s, a, b, f) == [p |-> p, s |-> s, a |-> a, b |-> b, fault |-> f]

\* Hoare partitioning: scan, break if crossed, swap, a += 1, b -= 1, break if crossed
RECURSIVE Hoare(_, _, _, _, _, _, _, _)
HoareStep(w, a1, b1, b, pivot1, pivot2, all, dbg) ==
    IF (a1.ovf \/ b1.ovf) /\ dbg THEN Split(w.p, w.s, a1.val, b, "panic")
    ELSE IF a1.val > b1.val THEN Split(w.p, w.s, a1.val, b1.val, "none")
    ELSE Hoare(w.p, w.s, a1.val, b1.val, pivot1, pivot2, all, dbg)

HoareSwap(p, s, sa, sb, pivot1, pivot2, all, dbg) ==
    IF sb.fault # "none" THEN Split(p, s, sa.i, sb.i, sb.fault)
    ELSE IF sa.i > sb.i THEN Split(p, s, sa.i, sb.i, "none")
    ELSE HoareStep(IF sa.i < sb.i THEN Swap2(p, s, sa.i, sb.i) ELSE [p |-> p, s |-> s],
                   UAdd(sa.i, 1), StepDown(sb.i), sb.i, pivot1, pivot2, all, dbg)

HoareDown(p, s, sa, b, pivot1, pivot2, all, dbg) ==
    IF sa.fault # "none" THEN Split(p, s, sa.i, b, sa.fault)
    ELSE HoareSwap(p, s, sa, ScanB(p, s, b, pivot1, pivot2, all, dbg),
                   pivot1, pivot2, all, dbg)

Hoare(p, s, a, b, pivot1, pivot2, all, dbg) ==
    HoareDown(p, s, ScanA(p, s, a, pivot1, pivot2, all, dbg), b, pivot1, pivot2, all, dbg)

\* the pivot's place: p = a + ((b - a) >> 1)
PivotIndex(left, width) == UAdd(left, width \div 2).val

\* the loop of quick_sort (all = FALSE) and of quick_sort_all (all = TRUE):
\* pivot by median of three, partition, sort the shorter part by a recursive
\* call and go on with the longer one until left >= right
RECURSIVE QuickSortLoop(_, _, _, _, _, _)
\* the recursive call returned r; the loop goes on with [from, to] if from < to
QuickSortRest(r, from, to, all, dbg) ==
    IF r.fault # "none" \/ from >= to THEN r
    ELSE QuickSortLoop(r.p, r.s, from, to, all, dbg)

\* the recursive call on [from, to], made only if from < to
QuickSortPart(h, from, to, all, dbg) ==
    IF from < to THEN QuickSortLoop(h.p, h.s, from, to, all, dbg) ELSE Sorted2(h.p, h.s)

QuickSortSplit(h, left, right, all, dbg) ==
    IF h.fault # "none" THEN Faulted2(h.p, h.s, h.fault)
    ELSE IF AsIsize(h.b) - AsIsize(left) <= AsIsize(right) - AsIsize(h.a)
         THEN QuickSortRest(QuickSortPart(h, left, h.b, all, dbg), h.a, right, all, dbg)
         ELSE QuickSortRest(QuickSortPart(h, h.a, right, all, dbg), left, h.b, all, dbg)

QuickSortPivot(st, left, m, right, all, dbg) ==
    QuickSortSplit(Hoare(st.p, st.s, left, right, At(st.p, m), At(st.s, m), all, dbg),
                   left, right, all, dbg)

QuickSortLoop(p, s, left, right, all, dbg) ==
    LET width == USub(right, left) IN
    IF width.ovf /\ dbg THEN Faulted2(p, s, "panic")
    ELSE IF \/ ~InRange(p, left)
            \/ ~InRange(p, PivotIndex(left, width.val))
            \/ ~InRange(p, right)
         THEN Faulted2(p, s, "ub")
    ELSE QuickSortPivot(
             OrderPair(OrderPair(OrderPair([p |-> p, s |-> s],
                                           left, PivotIndex(left, width.val), all),
                                 left, right, all),
                       PivotIndex(left, width.val), right, all),
             left, PivotIndex(left, width.val), right, all, dbg)

QuickSort(p, s, left, right, dbg) ==
    IF Len(p) # Len(s) THEN Faulted2(p, s, "panic")
    ELSE QuickSortLoop(p, s, left, right, FALSE, dbg)

QuickSortAll(p, s, left, right, dbg) ==
    IF Len(p) # Len(s) THEN Faulted2(p, s, "panic")
    ELSE QuickSortLoop(p, s, left, right, TRUE, dbg)

Sort(p, s, dbg) ==
    IF Len(p) # Len(s) THEN Faulted2(p, s, "panic")
    ELSE IF Len(p) <= 1 THEN Sorted2(p, s)
    ELSE IF Len(p) = 2
         THEN (IF FGt(At(p, 0), At(p, 1)) THEN Sorted2(Swap(p, 0, 1), Swap(s, 0, 1))
               ELSE Sorted2(p, s))
    ELSE IF Len(p) <= InsertionMax THEN InsertionSort(p, s, 1, dbg)
    ELSE QuickSort(p, s, 0, Len(p) - 1, dbg)

\* ---------------------------------------------------------------- ranks
\* the rank handle_rank_ties gives the run at sorted positions a .. b-1
TieRank(a, b, tb) ==
    CASE tb = "Average" -> FAdd(FDivInt(FromInt(b + a - 1), 2), FromInt(1))
      [] tb = "Min" -> FromInt(a + 1)
      [] tb = "Max" -> FromInt(b)

\* for i in a..b { ranks[index[i]] = rank }
RECURSIVE SetRanks(_, _, _, _, _)
SetRanks(ranks, index, i, b, rank) ==
    IF i >= b THEN ranks
    ELSE SetRanks(Put(ranks, At(index, i), rank), index, i + 1, b, rank)

HandleRankTies(ranks, index, a, b, tb) == SetRanks(ranks, index, a, b, TieRank(a, b, tb))

\* two sorted neighbours belong to one run: (x - y).abs() <= 0.0
SameRun(x, y) == FLe(FAbs(FSub(x, y)), 0)

\* the run [prev_idx, i) is closed: one element gets rank i, more go to handle_rank_ties
CloseRun(ranks, index, prev, i, tb) ==
    IF i = prev + 1 THEN Put(ranks, At(index, prev), FromInt(i))
    ELSE HandleRankTies(ranks, index, prev, i, tb)

\* for i in 1..n: close the run when self[i] differs from self[prev_idx];
\* after the loop, handle_rank_ties closes the last run [prev_idx, n)
RECURSIVE RankScan(_, _, _, _, _, _)
RankScan(arr, index, ranks, prev, i, tb) ==
    IF i >= Len(arr) THEN HandleRankTies(ranks, index, prev, Len(arr), tb)
    ELSE IF SameRun(At(arr, i), At(arr, prev))
         THEN RankScan(arr, index, ranks, prev, i + 1, tb)
         ELSE RankScan(arr, index, CloseRun(ranks, index, prev, i, tb), i, i + 1, tb)

\* for i in 0..n { ranks[index[i]] = (i + 1) as f64 }
RECURSIVE FirstRanks(_, _, _)
FirstRanks(ranks, index, i) ==
    IF i >= Len(ranks) THEN ranks
    ELSE FirstRanks(Put(ranks, At(index, i), FromInt(i + 1)), index, i + 1)

\* vec![0.0; n] and (0..n).collect()
ZeroRanks(n) == [i \in 1..n |-> 0]
Identity(n) == [i \in 1..n |-> i - 1]

RanksFirst(q) ==
    IF q.fault # "none" THEN Faulted(q.p, q.fault)
    ELSE Returned(q.p, FirstRanks(ZeroRanks(Len(q.p)), q.s, 0))

RanksTied(q, tb) ==
    IF q.fault # "none" THEN Faulted(q.p, q.fault)
    ELSE Returned(q.p, RankScan(q.p, q.s, ZeroRanks(Len(q.p)), 0, 1, tb))

Ranks(arr, tb, dbg) ==
    IF tb = "First"
    THEN (IF USub(Len(arr), 1).ovf /\ dbg THEN Faulted(arr, "panic")
          ELSE RanksFirst(QuickSortAll(arr, Identity(Len(arr)), 0,
                                       USub(Len(arr), 1).val, dbg)))
    ELSE RanksTied(Sort(arr, Identity(Len(arr)), dbg), tb)

\* ------------------------------------------- the aggregate statistics
\* Quotients and square roots are rounded to a multiple of 1/Unit.
\* x.sqrt()
FSqrt(x) ==
    IF x = NaN \/ x < 0 THEN NaN
    ELSE IF x = PosInf THEN PosInf
    ELSE CHOOSE r \in 0..(x + Unit) : r * r <= x * Unit /\ x * Unit < (r + 1) * (r + 1)

\* fold(0.0, |acc, &x| { m += 1.0; acc + (x - acc) / m })
RECURSIVE MeanFold(_, _, _)
MeanFold(arr, i, acc) ==
    IF i > Len(arr) THEN acc
    ELSE MeanFold(arr, i + 1, FAdd(acc, FDivInt(FSub(arr[i], acc), i)))

Mean(arr) == IF Len(arr) = 0 THEN NaN ELSE MeanFold(arr, 1, 0)

\* fold(0.0, |acc, &x| { m += 1.0; acc + (x * x - acc) / m })
RECURSIVE SquareFold(_, _, _)
SquareFold(arr, i, acc) ==
    IF i > Len(arr) THEN acc
    ELSE SquareFold(arr, i + 1, FAdd(acc, FDivInt(FSub(FMul(arr[i], arr[i]), acc), i)))

QuadraticMean(arr) == IF Len(arr) = 0 THEN NaN ELSE FSqrt(SquareFold(arr, 1, 0))

\* diff = (i as f64 + 1.0) * x - t;  (diff * diff) / ((i + 1) * i) as f64
VarDiff(i, x, t) == FSub(FMul(FromInt(i + 1), x), t)
VarTerm(i, diff) == FDivInt(FMul(diff, diff), (i + 1) * i)

\* for i in 1..self.len() { x = self[i]; t += x; diff; var += .. }
RECURSIVE VarFold(_, _, _, _)
VarNext(arr, i, t, var) ==
    VarFold(arr, i + 1, t, FAdd(var, VarTerm(i, VarDiff(i, At(arr, i), t))))

VarFold(arr, i, t, var) ==
    IF i >= Len(arr) THEN var ELSE VarNext(arr, i, FAdd(t, At(arr, i)), var)

Variance(arr) ==
    IF Len(arr) <= 1 THEN NaN
    ELSE FDivInt(VarFold(arr, 1, At(arr, 0), 0), Len(arr) - 1)

\* a population variance that asks for two elements as the sample variance does
PopulationVarianceOfSample(arr) ==
    IF Len(arr) <= 1 THEN NaN
    ELSE FDivInt(VarFold(arr, 1, At(arr, 0), 0), Len(arr))

PopulationVariance(arr) ==
    IF Len(arr) = 0 THEN NaN
    ELSE FDivInt(VarFold(arr, 1, At(arr, 0), 0), Len(arr))

\* zip(other).fold(0.0, |acc, x| acc + (x.0 - mean1) * (x.1 - mean2))
RECURSIVE CoFold(_, _, _, _, _, _)
CoFold(arr, other, mean1, mean2, i, acc) ==
    IF i > Len(arr) \/ i > Len(other) THEN acc
    ELSE CoFold(arr, other, mean1, mean2, i + 1,
                FAdd(acc, FMul(FSub(arr[i], mean1), FSub(other[i], mean2))))

\* a covariance that tests for too little data before it compares the lengths
CovarianceCheckedLate(arr, other) ==
    IF Len(arr) <= 1 THEN Returned(arr, NaN)
    ELSE IF Len(arr) # Len(other) THEN Faulted(arr, "panic")
    ELSE Returned(arr, FDivInt(CoFold(arr, other, Mean(arr), Mean(other), 1, 0),
                               Len(arr) - 1))

Covariance(arr, other) ==
    IF Len(arr) # Len(other) THEN Faulted(arr, "panic")
    ELSE IF Len(arr) <= 1 THEN Returned(arr, NaN)
    ELSE Returned(arr, FDivInt(CoFold(arr, other, Mean(arr), Mean(other), 1, 0),
                               Len(arr) - 1))

PopulationCovariance(arr, other) ==
    IF Len(arr) # Len(other) THEN Faulted(arr, "panic")
    ELSE IF Len(arr) = 0 THEN Returned(arr, NaN)
    ELSE Returned(arr, FDivInt(CoFold(arr, other, Mean(arr), Mean(other), 1, 0),
                               Len(arr)))

\* ------------------------------------------------- distribution::Uniform
\* x / y on f64, the quotient rounded to a multiple of 1/Unit
FDiv(x, y) ==
    IF x = NaN \/ y = NaN THEN NaN
    ELSE IF IsInf(x) THEN (IF IsInf(y) THEN NaN
                           ELSE IF FSign(x) * (IF y < 0 THEN -1 ELSE 1) > 0 THEN PosInf
                           ELSE NegInf)
    ELSE IF IsInf(y) THEN 0
    ELSE IF y = 0 THEN (IF x = 0 THEN NaN ELSE IF x > 0 THEN PosInf ELSE NegInf)
    ELSE FSign(x) * FSign(y) * ((FAbs(x) * Unit) \div FAbs(y))

\* struct Uniform { min: f64, max: f64 }; NoUniform: none has been constructed
NoUniform == [made |-> FALSE, min |-> NaN, max |-> NaN]

\* a constructor that lets a NaN max through
UniformNewMinOnly(min, max) ==
    IF FGt(min, max) \/ IsNaN(min)
    THEN [err |-> "BadParams", val |-> NoUniform]
    ELSE [err |-> "none", val |-> [made |-> TRUE, min |-> min, max |-> max]]

\* Uniform::new: Err(StatsError::BadParams) or Ok(Uniform { min, max })
UniformNew(min, max) ==
    IF FGt(min, max) \/ IsNaN(min) \/ IsNaN(max)
    THEN [err |-> "BadParams", val |-> NoUniform]
    ELSE [err |-> "none", val |-> [made |-> TRUE, min |-> min, max |-> max]]

\* Rng::gen_range(low, high) of the rand crate: it panics unless low < high,
\* and returns low + (high - low) * u for the next u in [0, 1) of the source
GenRange(low, high, u) ==
    IF ~FLt(low, high) THEN [ret |-> NaN, fault |-> "panic"]
    ELSE [ret |-> FAdd(low, FMul(FSub(high, low), u)), fault |-> "none"]

Value(v) == [ret |-> v, fault |-> "none"]

\* r.gen_range(self.min, self.max + 1.0)
UniformSample(self, u) == GenRange(self.min, FAdd(self.max, FromInt(1)), u)

UniformCdf(self, x) ==
    IF FLe(x, self.min) THEN Value(0)
    ELSE IF FGe(x, self.max) THEN Value(FromInt(1))
    ELSE Value(FDiv(FSub(x, self.min), FSub(self.max, self.min)))

UniformVariance(self) ==
    Value(FDivInt(FMul(FSub(self.max, self.min), FSub(self.max, self.min)), 12))
UniformPdf(self, x) ==
    IF FLt(x, self.min) \/ FGt(x, self.max) THEN Value(0)
    ELSE Value(FDiv(FromInt(1), FSub(self.max, self.min)))

\* ------------------------------------------------------- the state machine
\* One caller-owned buffer and the calls made on it, one after another.
\*   orig    the buffer as first handed over
\*   data    the buffer now (the calls reorder it in place)
\*   op, arg the last call and its argument; pre the buffer it was made on
\*   ret     the f64 it returned; rankv the rank vector ranks() returned
\*   status  "ok", or how the last call ended the program: "panic", "ub";
\*           "BadParams" when Uniform::new returned that error
\*   calls   the number of calls made
\*   index   the secondary slice of the last sort, quick_sort or quick_sort_all
\*   uni     the Uniform distribution constructed, NoUniform before
\*   run     the place a sort or a selection followed statement by statement has reached
VARIABLES orig, data, op, arg, pre, ret, rankv, status, calls, index, uni, run

vars == <<orig, data, op, arg, pre, ret, rankv, status, calls, index, uni, run>>

\* no sort is being followed
Idle == [pc |-> "idle"]

Finite == {FromInt(v) : v \in 0..MaxVal}
Vals == Finite \cup {NegInf, PosInf}
Inputs == UNION {[1..n -> Vals] : n \in 0..MaxLen}
AllFinite(s) == \A i \in 1..Len(s) : ~IsNaN(s[i]) /\ ~IsInf(s[i])

TauPercents == {-25, 0, 10, 25, 50, 75, 90, 100, 125}
Taus == {FDivInt(FromInt(t), PercentDen) : t \in TauPercents}
Percents == {0, 40, 100, 105}
TieBreakers == {"Average", "Min", "Max", "First"}

\* what an f64 read after undefined behaviour may hold
UndefinedF64 == {NaN, 0, PosInf}
\* what a rank vector returned after undefined behaviour may hold
UndefinedRanks(n) == {<<>>, [i \in 1..n |-> 0], [i \in 1..n |-> NaN]}

Init ==
    /\ orig \in Inputs
    /\ data = orig
    /\ pre = orig
    /\ op = "none"
    /\ arg = 0
    /\ ret = NaN
    /\ rankv = <<>>
    /\ status = "ok"
    /\ calls = 0
    /\ index = <<>>
    /\ uni = NoUniform
    /\ run = Idle

CanCall == status = "ok" /\ calls < MaxCalls

\* the call `name(a)` ended as r: the buffer is left as r.arr
Ended(name, a, r) ==
    /\ op' = name
    /\ arg' = a
    /\ pre' = data
    /\ data' = r.arr
    /\ status' = (IF r.fault = "none" THEN "ok" ELSE r.fault)
    /\ calls' = calls + 1
    /\ UNCHANGED <<orig, index, uni, run>>

\* a call that returns an f64
EndedF64(name, a, r) ==
    /\ Ended(name, a, r)
    /\ ret' \in (IF r.fault = "ub" THEN UndefinedF64 ELSE {r.ret})
    /\ rankv' = <<>>

\* a call that returns a rank vector
EndedRanks(name, a, r) ==
    /\ Ended(name, a, r)
    /\ rankv' \in (IF r.fault = "ub" THEN UndefinedRanks(Len(data))
                   ELSE IF r.fault = "panic" THEN {<<>>} ELSE {r.ret})
    /\ ret' = NaN

CallSelectInplace ==
    /\ CanCall
    /\ Len(data) >= 1
    /\ \E rank \in 0..(Len(data) - 1), dbg \in BOOLEAN :
          EndedF64("select_inplace", rank, SelectInplace(data, rank, dbg))

CallOrderStatistic ==
    /\ CanCall
    /\ \E order \in 0..(Len(data) + 1), dbg \in BOOLEAN :
          EndedF64("order_statistic", order, OrderStatistic(data, order, dbg))

CallMedian ==
    /\ CanCall
    /\ \E dbg \in BOOLEAN : EndedF64("median", 0, Median(data, dbg))

CallQuantile ==
    /\ CanCall
    /\ \E tau \in Taus, dbg \in BOOLEAN :
          EndedF64("quantile", tau, Quantile(data, tau, dbg))

CallPercentile ==
    /\ CanCall
    /\ \E p \in Percents, dbg \in BOOLEAN :
          EndedF64("percentile", p, Percentile(data, p, dbg))

CallLowerQuartile ==
    /\ CanCall
    /\ \E dbg \in BOOLEAN : EndedF64("lower_quartile", 0, LowerQuartile(data, dbg))

CallUpperQuartile ==
    /\ CanCall
    /\ \E dbg \in BOOLEAN : EndedF64("upper_quartile", 0, UpperQuartile(data, dbg))

CallInterquartileRange ==
    /\ CanCall
    /\ \E dbg \in BOOLEAN :
          EndedF64("interquartile_range", 0, InterquartileRange(data, dbg))

CallRanks ==
    /\ CanCall
    /\ \E tb \in TieBreakers, dbg \in BOOLEAN :
          EndedRanks("ranks", tb, Ranks(data, tb, dbg))

Next ==
    \/ CallSelectInplace
    \/ CallOrderStatistic
    \/ CallMedian
    \/ CallQuantile
    \/ CallPercentile
    \/ CallLowerQuartile
    \/ CallUpperQuartile
    \/ CallInterquartileRange
    \/ CallRanks

Spec == Init /\ [][Next]_vars


\* Buffers longer than the insertion-sort limit, which sort hands to quick_sort;
\* one call is made on each.
LongLen == InsertionMax + 1
LongInputs == [1..LongLen -> {0, FromInt(1)}]

InitLong ==
    /\ orig \in LongInputs
    /\ data = orig
    /\ pre = orig
    /\ op = "none"
    /\ arg = 0
    /\ ret = NaN
    /\ rankv = <<>>
    /\ status = "ok"
    /\ calls = MaxCalls - 1
    /\ index = <<>>
    /\ uni = NoUniform
    /\ run = Idle

SpecLong == InitLong /\ [][Next]_vars

\* -------------------------------------------- the functions called directly
\* sort, quick_sort and quick_sort_all take a primary and a secondary slice;
\* ranks() hands them 0..n as the secondary, another caller may hand them a
\* slice of another length.  One call is made on each buffer.
Secondaries(n) ==
    {Identity(n), Identity(n + 1)} \cup (IF n > 0 THEN {Identity(n - 1)} ELSE {})

\* the call `name(data, s, ..)` ended as r
EndedSort(name, s, r) ==
    /\ op' = name
    /\ arg' = s
    /\ pre' = data
    /\ data' = r.p
    /\ index' = r.s
    /\ status' = (IF r.fault = "none" THEN "ok" ELSE r.fault)
    /\ calls' = calls + 1
    /\ ret' = NaN
    /\ rankv' = <<>>
    /\ UNCHANGED <<orig, uni, run>>

CallSort ==
    /\ CanCall
    /\ \E s \in Secondaries(Len(data)), dbg \in BOOLEAN :
          EndedSort("sort", s, Sort(data, s, dbg))

CallQuickSort ==
    /\ CanCall
    /\ Len(data) >= 1
    /\ \E s \in Secondaries(Len(data)), dbg \in BOOLEAN :
          EndedSort("quick_sort", s, QuickSort(data, s, 0, Len(data) - 1, dbg))

CallQuickSortAll ==
    /\ CanCall
    /\ Len(data) >= 1
    /\ \E s \in Secondaries(Len(data)), dbg \in BOOLEAN :
          EndedSort("quick_sort_all", s, QuickSortAll(data, s, 0, Len(data) - 1, dbg))

\* the second slice handed to covariance: 1.0, 0.0, 1.0, .. of the same length,
\* one shorter and one longer
Others(n) == {[i \in 1..m |-> FromInt(i % 2)] : m \in {n - 1, n, n + 1} \ {-1}}

CallMin == CanCall /\ EndedF64("min", 0, Returned(data, Min(data)))

CallMax == CanCall /\ EndedF64("max", 0, Returned(data, Max(data)))

CallMean == CanCall /\ EndedF64("mean", 0, Returned(data, Mean(data)))

CallQuadraticMean ==
    CanCall /\ EndedF64("quadratic_mean", 0, Returned(data, QuadraticMean(data)))

CallVariance == CanCall /\ EndedF64("variance", 0, Returned(data, Variance(data)))

CallPopulationVariance ==
    CanCall /\ EndedF64("population_variance", 0, Returned(data, PopulationVariance(data)))

CallCovariance ==
    /\ CanCall
    /\ \E other \in Others(Len(data)) \cup {data} :
          EndedF64("covariance", other, Covariance(data, other))

CallPopulationCovariance ==
    /\ CanCall
    /\ \E other \in Others(Len(data)) \cup {data} :
          EndedF64("population_covariance", other, PopulationCovariance(data, other))

InitDirect ==
    /\ orig \in Inputs \cup LongInputs
    /\ data = orig
    /\ pre = orig
    /\ op = "none"
    /\ arg = 0
    /\ ret = NaN
    /\ rankv = <<>>
    /\ status = "ok"
    /\ calls = MaxCalls - 1
    /\ index = <<>>
    /\ uni = NoUniform
    /\ run = Idle

NextDirect ==
    \/ CallSort
    \/ CallQuickSort
    \/ CallQuickSortAll
    \/ CallMin
    \/ CallMax
    \/ CallMean
    \/ CallQuadraticMean
    \/ CallVariance
    \/ CallPopulationVariance
    \/ CallCovariance
    \/ CallPopulationCovariance

SpecDirect == InitDirect /\ [][NextDirect]_vars

\* one call of any of the functions on each buffer
NextAll == Next \/ NextDirect

SpecAll == InitDirect /\ [][NextAll]_vars

\* ------------------------------------- the sorts, statement by statement
\* sort(self, index) and quick_sort_all(self, index, 0, n - 1) as ranks() calls
\* them, followed one statement at a time on data and index.  run holds the
\* locals: pc the place reached, i, j, key, item of the insertion sort, left,
\* right, a, b, pivot1, pivot2 of the quick sorts, all telling quick_sort_all
\* from quick_sort, stack the ranges the pending recursive calls go on with,
\* steps the number of statements executed so far.
\* A fault leaves pc where it happened and sets status.
Started(pc, all, dbg, right) ==
    [pc |-> pc, all |-> all, dbg |-> dbg, i |-> 1, j |-> 0, key |-> 0, item |-> 0,
     left |-> 0, right |-> right, a |-> 0, b |-> 0, pivot1 |-> 0, pivot2 |-> 0,
     stack |-> <<>>, steps |-> 0]

Running(pc) == status = "ok" /\ run.pc = pc

\* where sort goes after its length tests
SortEntry(n) ==
    IF n <= 1 THEN "return" ELSE IF n = 2 THEN "pair"
    ELSE IF n <= InsertionMax THEN "for" ELSE "loop"

BeginSort ==
    /\ CanCall /\ run.pc = "idle"
    /\ \E dbg \in BOOLEAN :
          run' = Started(SortEntry(Len(data)), FALSE, dbg, Len(data) - 1)
    /\ op' = "sort"
    /\ arg' = Identity(Len(data))
    /\ pre' = data
    /\ index' = Identity(Len(data))
    /\ calls' = calls + 1
    /\ UNCHANGED <<orig, data, ret, rankv, status, uni>>

\* ranks(First): quick_sort_all(self, &mut *index, 0, n - 1)
BeginQuickSortAll ==
    /\ CanCall /\ run.pc = "idle"
    /\ \E dbg \in BOOLEAN :
          /\ run' = Started("loop", TRUE, dbg, USub(Len(data), 1).val)
          /\ status' = (IF USub(Len(data), 1).ovf /\ dbg THEN "panic" ELSE "ok")
    /\ op' = "quick_sort_all"
    /\ arg' = Identity(Len(data))
    /\ pre' = data
    /\ index' = Identity(Len(data))
    /\ calls' = calls + 1
    /\ UNCHANGED <<orig, data, ret, rankv, uni>>

StepKeeps == UNCHANGED <<orig, op, arg, pre, ret, rankv, calls, uni>>

\* n == 2: if primary[0] > primary[1] swap both
SortPair ==
    /\ Running("pair")
    /\ data' = (IF FGt(At(data, 0), At(data, 1)) THEN Swap(data, 0, 1) ELSE data)
    /\ index' = (IF FGt(At(data, 0), At(data, 1)) THEN Swap(index, 0, 1) ELSE index)
    /\ run' = [run EXCEPT !.pc = "return", !.steps = @ + 1]
    /\ UNCHANGED status
    /\ StepKeeps

\* for i in 1..n { key = primary[i]; item = secondary[i]; j = i - 1; .. }
InsFor ==
    /\ Running("for")
    /\ run' = (IF run.i >= Len(data) THEN [run EXCEPT !.pc = "return", !.steps = @ + 1]
               ELSE [run EXCEPT !.pc = "while", !.key = At(data, run.i),
                                !.item = At(index, run.i), !.j = run.i - 1,
                                !.steps = @ + 1])
    /\ UNCHANGED <<data, index, status>>
    /\ StepKeeps

InsGoesOn == run.j >= 0 /\ FGt(At(data, run.j), run.key)

\* primary[j + 1] = primary[j]; secondary[j + 1] = secondary[j]; j -= 1
InsShift ==
    /\ Running("while")
    /\ InsGoesOn
    /\ data' = Put(data, run.j + 1, At(data, run.j))
    /\ index' = Put(index, run.j + 1, At(index, run.j))
    /\ run' = [run EXCEPT !.j = run.j - 1, !.steps = @ + 1]
    /\ UNCHANGED status
    /\ StepKeeps

\* primary[j as usize + 1] = key; secondary[j as usize + 1] = item
InsStore ==
    /\ Running("while")
    /\ ~InsGoesOn
    /\ IF (InsertSlot(run.j).ovf /\ run.dbg) \/ ~InRange(data, InsertSlot(run.j).val)
       THEN status' = "panic" /\ UNCHANGED <<data, index, run>>
       ELSE /\ data' = Put(data, InsertSlot(run.j).val, run.key)
            /\ index' = Put(index, InsertSlot(run.j).val, run.item)
            /\ run' = [run EXCEPT !.pc = "for", !.i = run.i + 1, !.steps = @ + 1]
            /\ UNCHANGED status
    /\ StepKeeps

\* the statement faults / goes on with the locals r
Fault(f) == status' = f /\ UNCHANGED run
Goes(r) == run' = [r EXCEPT !.steps = @ + 1] /\ UNCHANGED status

\* p = a + ((b - a) >> 1)
QsMiddle == PivotIndex(run.left, USub(run.right, run.left).val)

\* a = left; b = right; p; the three compare-and-swaps; pivot = primary[p]
QsPivoted(st) ==
    /\ data' = st.p
    /\ index' = st.s
    /\ Goes([run EXCEPT !.pc = "scan_a", !.a = run.left, !.b = run.right,
                        !.pivot1 = At(st.p, QsMiddle), !.pivot2 = At(st.s, QsMiddle)])

QsPivot ==
    /\ Running("loop")
    /\ IF USub(run.right, run.left).ovf /\ run.dbg
       THEN Fault("panic") /\ UNCHANGED <<data, index>>
       ELSE IF \/ ~InRange(data, run.left)
               \/ ~InRange(data, QsMiddle)
               \/ ~InRange(data, run.right)
            THEN Fault("ub") /\ UNCHANGED <<data, index>>
       ELSE QsPivoted(OrderPair(OrderPair(OrderPair([p |-> data, s |-> index],
                                                    run.left, QsMiddle, run.all),
                                          run.left, run.right, run.all),
                                QsMiddle, run.right, run.all))
    /\ StepKeeps

\* while primary[a] < pivot { a += 1 }, one test at a time
QsScanA ==
    /\ Running("scan_a")
    /\ IF ~InRange(data, run.a) THEN Fault("ub")
       ELSE IF ~BelowPivot(At(data, run.a), At(index, run.a),
                           run.pivot1, run.pivot2, run.all)
            THEN Goes([run EXCEPT !.pc = "scan_b"])
       ELSE IF UAdd(run.a, 1).ovf /\ run.dbg THEN Fault("panic")
       ELSE Goes([run EXCEPT !.a = UAdd(run.a, 1).val])
    /\ UNCHANGED <<data, index>>
    /\ StepKeeps

\* while pivot < primary[b] { b -= 1 }, one test at a time
QsScanB ==
    /\ Running("scan_b")
    /\ IF ~InRange(data, run.b) THEN Fault("ub")
       ELSE IF ~AbovePivot(At(data, run.b), At(index, run.b),
                           run.pivot1, run.pivot2, run.all)
            THEN Goes([run EXCEPT !.pc = "cross"])
       ELSE IF USub(run.b, 1).ovf /\ run.dbg THEN Fault("panic")
       ELSE Goes([run EXCEPT !.b = USub(run.b, 1).val])
    /\ UNCHANGED <<data, index>>
    /\ StepKeeps

\* if a > b break; if a < b swap both; a += 1; b -= 1; if a > b break
QsStepped(a1, b1) ==
    IF (a1.ovf \/ b1.ovf) /\ run.dbg THEN Fault("panic")
    ELSE Goes([run EXCEPT !.a = a1.val, !.b = b1.val,
                          !.pc = IF a1.val > b1.val THEN "split" ELSE "scan_a"])

QsCross ==
    /\ Running("cross")
    /\ IF run.a > run.b
       THEN Goes([run EXCEPT !.pc = "split"]) /\ UNCHANGED <<data, index>>
       ELSE /\ data' = (IF run.a < run.b THEN Swap2(data, index, run.a, run.b).p ELSE data)
            /\ index' = (IF run.a < run.b THEN Swap2(data, index, run.a, run.b).s ELSE index)
            /\ QsStepped(UAdd(run.a, 1), StepDown(run.b))
    /\ StepKeeps

\* the shorter part goes to a recursive call, the loop goes on with the longer
ShorterFirst == AsIsize(run.b) - AsIsize(run.left) <= AsIsize(run.right) - AsIsize(run.a)
QsCall ==
    IF ShorterFirst THEN [left |-> run.left, right |-> run.b]
    ELSE [left |-> run.a, right |-> run.right]
QsRest ==
    IF ShorterFirst THEN [left |-> run.a, right |-> run.right]
    ELSE [left |-> run.left, right |-> run.b]

\* left = a (or right = b); if left >= right break
Resume(r, c) ==
    [r EXCEPT !.left = c.left, !.right = c.right, !.steps = @ + 1,
              !.pc = IF c.left >= c.right THEN "return" ELSE "loop"]

QsSplit ==
    /\ Running("split")
    /\ run' = (IF QsCall.left < QsCall.right
               THEN [run EXCEPT !.stack = Append(@, QsRest), !.left = QsCall.left,
                                !.right = QsCall.right, !.pc = "loop",
                                !.steps = @ + 1]
               ELSE Resume(run, QsRest))
    /\ UNCHANGED <<data, index, status>>
    /\ StepKeeps

\* a call returns: to the recursive call's caller, or to ranks()
Return ==
    /\ Running("return")
    /\ run' = (IF run.stack = <<>> THEN Idle
               ELSE Resume([run EXCEPT !.stack = SubSeq(@, 1, Len(@) - 1)],
                           run.stack[Len(run.stack)]))
    /\ UNCHANGED <<data, index, status>>
    /\ StepKeeps

\* select_inplace(arr, rank), one pass of its outer loop at a time: run.left and
\* run.right hold low and high, run.i holds rank.  rank == 0 returns arr.min().
BeginSelect ==
    /\ CanCall /\ run.pc = "idle"
    /\ Len(data) >= 1
    /\ \E rank \in 0..(Len(data) - 1), dbg \in BOOLEAN :
          /\ run' = [Started(IF rank = 0 THEN "return" ELSE "select", FALSE, dbg,
                             Len(data) - 1) EXCEPT !.i = rank]
          /\ arg' = rank
          /\ ret' = (IF rank = 0 THEN Min(data) ELSE NaN)
    /\ op' = "select_inplace"
    /\ pre' = data
    /\ calls' = calls + 1
    /\ UNCHANGED <<orig, data, rankv, status, index, uni>>

\* if high <= low + 1 { order the two left; return arr[rank] }
SelectEnd ==
    /\ Running("select")
    /\ run.right <= run.left + 1
    /\ data' = SelectLast(data, run.left, run.right, run.i).arr
    /\ ret' = SelectLast(data, run.left, run.right, run.i).ret
    /\ run' = [run EXCEPT !.pc = "return", !.steps = @ + 1]
    /\ UNCHANGED <<orig, op, arg, pre, rankv, status, calls, index, uni>>

\* the partition pt of a pass is done: write the pivot back, narrow the window
SelectPassed(pt, pivot) ==
    IF pt.fault # "none" THEN Fault(pt.fault) /\ data' = pt.arr
    ELSE /\ data' = PlacePivot(pt.arr, run.left, pt.end, pivot)
         /\ Goes([run EXCEPT !.left = NextLow(run.left, pt.begin, pt.end, run.i),
                             !.right = NextHigh(run.right, pt.end, run.i)])

\* middle to low + 1, median of three, partition around arr[low + 1]
SelectPass ==
    /\ Running("select")
    /\ run.right > run.left + 1
    /\ SelectPassed(Partition(MedianOfThree(Swap(data, (run.left + run.right) \div 2,
                                                 run.left + 1),
                                            run.left, run.right),
                              run.left + 1, run.right,
                              At(MedianOfThree(Swap(data, (run.left + run.right) \div 2,
                                                    run.left + 1),
                                               run.left, run.right), run.left + 1),
                              run.dbg),
                    At(MedianOfThree(Swap(data, (run.left + run.right) \div 2,
                                          run.left + 1),
                                     run.left, run.right), run.left + 1))
    /\ UNCHANGED <<orig, op, arg, pre, ret, rankv, calls, index, uni>>

NextSteps ==
    \/ BeginSort
    \/ BeginQuickSortAll
    \/ SortPair
    \/ InsFor
    \/ InsShift
    \/ InsStore
    \/ QsPivot
    \/ QsScanA
    \/ QsScanB
    \/ QsCross
    \/ QsSplit
    \/ Return
    \/ BeginSelect
    \/ SelectEnd
    \/ SelectPass

SpecSteps == InitDirect /\ [][NextSteps]_vars

\* ---------------------------------- buffers holding NaN or an infinity
\* select_inplace, sort, quick_sort, quick_sort_all, min and max, one call on
\* each buffer that holds at least one NaN, +inf or -inf
NonFiniteInputs ==
    {s \in UNION {[1..n -> Vals \cup {NaN}] : n \in 1..MaxLen} : ~AllFinite(s)}

InitNonFinite ==
    /\ orig \in NonFiniteInputs
    /\ data = orig
    /\ pre = orig
    /\ op = "none"
    /\ arg = 0
    /\ ret = NaN
    /\ rankv = <<>>
    /\ status = "ok"
    /\ calls = MaxCalls - 1
    /\ index = <<>>
    /\ uni = NoUniform
    /\ run = Idle

NextNonFinite ==
    \/ CallSelectInplace
    \/ CallSort
    \/ CallQuickSort
    \/ CallQuickSortAll
    \/ CallMin
    \/ CallMax

SpecNonFinite == InitNonFinite /\ [][NextNonFinite]_vars

\* ------------------------------------------- a Uniform and the calls on it
UniVals == {k * (Unit \div 2) : k \in -1..(2 * MaxVal + 1)} \cup {NaN, NegInf, PosInf}
\* what the random source may yield next, in [0, 1)
SourceVals == {k * (Unit \div 4) : k \in 0..3}

\* a call on the Uniform ended as r (status BadParams: new returned that error)
EndedUniform(name, a, u, r) ==
    /\ op' = name
    /\ arg' = a
    /\ pre' = uni
    /\ uni' = u
    /\ ret' = r.ret
    /\ status' = (IF r.fault = "none" THEN "ok" ELSE r.fault)
    /\ calls' = calls + 1
    /\ UNCHANGED <<orig, data, rankv, index, run>>

CallUniformNew ==
    /\ CanCall
    /\ ~uni.made
    /\ \E min, max \in UniVals :
          EndedUniform("new", <<min, max>>, UniformNew(min, max).val,
                       [ret |-> NaN, fault |-> UniformNew(min, max).err])

\* the methods below take &self: the Uniform is as it was
CallUniformSample ==
    /\ CanCall
    /\ uni.made
    /\ \E u \in SourceVals : EndedUniform("sample", u, uni, UniformSample(uni, u))

CallUniformCdf ==
    /\ CanCall
    /\ uni.made
    /\ \E x \in UniVals : EndedUniform("cdf", x, uni, UniformCdf(uni, x))

CallUniformPdf ==
    /\ CanCall
    /\ uni.made
    /\ \E x \in UniVals : EndedUniform("pdf", x, uni, UniformPdf(uni, x))

CallUniformMin == CanCall /\ uni.made /\ EndedUniform("min", 0, uni, Value(uni.min))

CallUniformMax == CanCall /\ uni.made /\ EndedUniform("max", 0, uni, Value(uni.max))

CallUniformMean ==
    /\ CanCall
    /\ uni.made
    /\ EndedUniform("mean", 0, uni, Value(FDivInt(FAdd(uni.min, uni.max), 2)))

CallUniformVariance ==
    CanCall /\ uni.made /\ EndedUniform("variance", 0, uni, UniformVariance(uni))

CallUniformStdDev ==
    /\ CanCall
    /\ uni.made
    /\ EndedUniform("std_dev", 0, uni, Value(FSqrt(UniformVariance(uni).ret)))

CallUniformSkewness == CanCall /\ uni.made /\ EndedUniform("skewness", 0, uni, Value(0))

CallUniformMedian ==
    /\ CanCall
    /\ uni.made
    /\ EndedUniform("median", 0, uni, Value(FDivInt(FAdd(uni.min, uni.max), 2)))

CallUniformMode ==
    /\ CanCall
    /\ uni.made
    /\ EndedUniform("mode", 0, uni, Value(FDivInt(FAdd(uni.min, uni.max), 2)))

InitUniform ==
    /\ orig = <<>>
    /\ data = orig
    /\ pre = NoUniform
    /\ op = "none"
    /\ arg = 0
    /\ ret = NaN
    /\ rankv = <<>>
    /\ status = "ok"
    /\ calls = 0
    /\ index = <<>>
    /\ uni = NoUniform
    /\ run = Idle

NextUniform ==
    \/ CallUniformNew
    \/ CallUniformSample
    \/ CallUniformCdf
    \/ CallUniformPdf
    \/ CallUniformMin
    \/ CallUniformMax
    \/ CallUniformMean
    \/ CallUniformVariance
    \/ CallUniformStdDev
    \/ CallUniformSkewness
    \/ CallUniformMedian
    \/ CallUniformMode

SpecUniform == InitUniform /\ [][NextUniform]_vars

\* ------------------------------------------------------------ properties
\* What the claims compare the code with: the ascending sort of a buffer, said
\* by counting.
Values(s) == {s[i] : i \in 1..Len(s)}
NumLess(s, v) == Cardinality({i \in 1..Len(s) : FLt(s[i], v)})
NumEqual(s, v) == Cardinality({i \in 1..Len(s) : FEq(s[i], v)})
\* the value at zero-based position k of the ascending sort of s
KthSmallest(s, k) ==
    CHOOSE v \in Values(s) : NumLess(s, v) <= k /\ k < NumLess(s, v) + NumEqual(s, v)
Reorderings(s) == {[i \in 1..Len(s) |-> s[f[i]]] : f \in Permutations(1..Len(s))}
IsSortedAsc(s) == \A i \in 1..(Len(s) - 1) : FLe(s[i], s[i + 1])
HasDuplicates(s) == \E i, j \in 1..Len(s) : i < j /\ s[i] = s[j]
RECURSIVE SumF64(_, _)
SumF64(s, i) == IF i > Len(s) THEN 0 ELSE FAdd(s[i], SumF64(s, i + 1))

\* C1: select_inplace(buffer, rank), on a non-empty NaN-free buffer with rank in
\* [0, len-1], returns the value at zero-based position rank of the ascending
\* sort of the buffer's contents.
C1_SelectReturnsRankth ==
    op = "select_inplace" => status = "ok" /\ ret = KthSmallest(pre, arg)

C1_Witness ==
    /\ op = "select_inplace" /\ status = "ok"
    /\ Len(pre) >= 4 /\ arg > 0 /\ arg < Len(pre) - 1
    /\ HasDuplicates(pre) /\ ~IsSortedAsc(pre)
    /\ ret = KthSmallest(pre, arg) /\ ret # At(pre, arg)

\* C2: order_statistic(k), k in [1, n] on a non-empty NaN-free buffer, returns
\* the k-th smallest value; order_statistic(1) is min() and order_statistic(n)
\* is max().
C2_OrderStatisticKth ==
    (op = "order_statistic" /\ 1 <= arg /\ arg <= Len(pre)) =>
        /\ status = "ok"
        /\ ret = KthSmallest(pre, arg - 1)
        /\ (arg = 1 => ret = Min(pre))
        /\ (arg = Len(pre) => ret = Max(pre))

C2_Witness ==
    /\ op = "order_statistic" /\ status = "ok"
    /\ 1 < arg /\ arg < Len(pre)
    /\ ret = KthSmallest(pre, arg - 1) /\ ret # At(pre, arg - 1) /\ data # pre

\* C3: order_statistic(k) returns NaN, without faulting, on an empty buffer (any
\* k) and for k = 0 or k > n on a buffer of length n.
C3_OrderStatisticNaN ==
    (op = "order_statistic" /\ (Len(pre) = 0 \/ arg = 0 \/ arg > Len(pre))) =>
        status = "ok" /\ IsNaN(ret) /\ data = pre

C3_Witness ==
    /\ op = "order_statistic" /\ status = "ok"
    /\ Len(pre) >= 2 /\ arg > Len(pre) /\ IsNaN(ret)

\* the median by its arithmetic definition
MedianOf(s) ==
    IF Len(s) = 0 THEN NaN
    ELSE IF Len(s) % 2 = 1 THEN KthSmallest(s, (Len(s) - 1) \div 2)
    ELSE FDivInt(FAdd(KthSmallest(s, Len(s) \div 2 - 1), KthSmallest(s, Len(s) \div 2)), 2)

\* C4: median() returns the order statistic at sorted position (n-1)/2 for odd
\* n, the mean of those at positions n/2-1 and n/2 for even n, NaN for n = 0.
C4_MedianIsMiddle ==
    op = "median" => status = "ok" /\ ret = MedianOf(pre)

C4_Witness ==
    /\ op = "median" /\ status = "ok"
    /\ Len(pre) = 4 /\ ~IsSortedAsc(pre) /\ AllFinite(pre)
    /\ ret \notin Values(pre) /\ ret = MedianOf(pre) /\ data # pre

\* C5: median() is permutation-invariant: on every reordering of the buffer it
\* returns the same value, so also when called again on the buffer as a
\* previous call left it.
C5_MedianPermutationInvariant ==
    op = "median" =>
        /\ status = "ok"
        /\ \A q \in Reorderings(pre) :
              Median(q, TRUE).fault = "none" /\ Median(q, TRUE).ret = ret
        /\ Median(data, TRUE).ret = ret
        /\ Median(orig, TRUE).ret = ret

C5_Witness ==
    /\ op = "median" /\ status = "ok" /\ calls = 2
    /\ Len(pre) >= 3 /\ pre # orig /\ ~IsSortedAsc(pre) /\ data # pre
    /\ Median(data, TRUE).ret = ret

\* h = (n + 1/3) * tau + 1/3 in units of 1/Unit (tau is a multiple of 3/Unit)
ClaimedH(n, tau) == n * tau + tau \div 3 + Unit \div 3
ClaimedF(n, tau) == ClaimedH(n, tau) \div Unit
QuantileOf(s, tau) ==
    IF ClaimedF(Len(s), tau) <= 0 \/ tau = 0 THEN Min(s)
    ELSE IF ClaimedF(Len(s), tau) >= Len(s) \/ tau = Unit THEN Max(s)
    ELSE FAdd(KthSmallest(s, ClaimedF(Len(s), tau) - 1),
              FMul(ClaimedH(Len(s), tau) - Unit * ClaimedF(Len(s), tau),
                   FSub(KthSmallest(s, ClaimedF(Len(s), tau)),
                        KthSmallest(s, ClaimedF(Len(s), tau) - 1))))

\* C6: for tau in [0, 1] on a non-empty NaN-free buffer, with h = (n + 1/3) tau
\* + 1/3 and f = floor(h): quantile(tau) is min() if f <= 0 or tau = 0, max() if
\* f >= n or tau = 1, else s[f-1] + (h - f)(s[f] - s[f-1]) on the sorted s.
C6_QuantileInterpolates ==
    (op = "quantile" /\ 0 <= arg /\ arg <= Unit /\ Len(pre) >= 1) =>
        /\ status = "ok"
        /\ ret = QuantileOf(pre, arg)
        /\ (arg = 0 => ret = Min(pre))
        /\ (arg = Unit => ret = Max(pre))

C6_Witness ==
    /\ op = "quantile" /\ status = "ok" /\ 0 < arg /\ arg < Unit
    /\ Len(pre) >= 3 /\ AllFinite(pre) /\ ~IsSortedAsc(pre)
    /\ ClaimedF(Len(pre), arg) >= 2 /\ ClaimedF(Len(pre), arg) < Len(pre)
    /\ ret \notin Values(pre) /\ ret = QuantileOf(pre, arg)

\* C7: quantile(tau) is NaN for tau < 0, tau > 1 or an empty buffer;
\* percentile(p) is quantile(p / 100), so NaN for p > 100 and on an empty buffer.
C7_QuantileNaN ==
    /\ (op = "quantile" /\ (arg < 0 \/ arg > Unit \/ Len(pre) = 0)) =>
           status = "ok" /\ IsNaN(ret) /\ data = pre
    /\ op = "percentile" =>
           /\ status = "ok"
           /\ ret = Quantile(pre, (arg * Unit) \div PercentDen, TRUE).ret
           /\ data = Quantile(pre, (arg * Unit) \div PercentDen, TRUE).arr
           /\ (arg > PercentDen \/ Len(pre) = 0) => IsNaN(ret)
           /\ (arg <= PercentDen /\ Len(pre) >= 1) => ret = QuantileOf(pre, 3 * arg)

C7_Witness ==
    /\ op = "percentile" /\ status = "ok"
    /\ arg > PercentDen /\ Len(pre) >= 2 /\ IsNaN(ret)

\* the rank the tie-break policy tb gives the value v of buffer s
RankOf(s, v, tb) ==
    CASE tb = "Min" -> FromInt(NumLess(s, v) + 1)
      [] tb = "Max" -> FromInt(NumLess(s, v) + NumEqual(s, v))
      [] tb = "Average" ->
            FDivInt(FromInt((NumLess(s, v) + 1) + (NumLess(s, v) + NumEqual(s, v))), 2)

\* C8: for a finite buffer of any length n >= 1 and a policy in {Average, Min,
\* Max}, ranks() returns a vector of length n that gives original position j,
\* with L elements smaller than its value and E equal to it, the rank L+1 (Min),
\* L+E (Max), ((L+1)+(L+E))/2 (Average).
C8_RanksByPolicy ==
    (op = "ranks" /\ arg \in {"Average", "Min", "Max"} /\ Len(pre) >= 1 /\ AllFinite(pre)) =>
        /\ status = "ok"
        /\ Len(rankv) = Len(pre)
        /\ \A j \in 1..Len(pre) : rankv[j] = RankOf(pre, pre[j], arg)

\* C9: the entries of ranks(Average) sum to n(n+1)/2, for every input of
\* length n, with or without ties.
C9_AverageRankSum ==
    (op = "ranks" /\ arg = "Average") =>
        /\ status = "ok"
        /\ Len(rankv) = Len(pre)
        /\ SumF64(rankv, 1) = FDivInt(FromInt(Len(pre) * (Len(pre) + 1)), 2)

\* C10: ranks(First) on an input of length n >= 1 returns a vector of length n
\* whose entries are the integers 1..n, each once.
C10_FirstRanksPermutation ==
    (op = "ranks" /\ arg = "First" /\ Len(pre) >= 1) =>
        /\ status = "ok"
        /\ Len(rankv) = Len(pre)
        /\ Values(rankv) = {FromInt(i) : i \in 1..Len(pre)}

\* C11: ranks(First) orders elements by (value, original index): for all
\* original positions i # j, r[i] < r[j] if and only if value[i] < value[j], or
\* value[i] = value[j] and i < j.
C11_FirstRanksByValueThenIndex ==
    (op = "ranks" /\ arg = "First") =>
        /\ status = "ok"
        /\ Len(rankv) = Len(pre)
        /\ \A i, j \in 1..Len(pre) :
              i # j => (FLt(rankv[i], rankv[j]) <=>
                           (FLt(pre[i], pre[j]) \/ (FEq(pre[i], pre[j]) /\ i < j)))

\* C12: on an empty buffer ranks(tie_breaker) returns an empty rank vector
\* without faulting, for each of Average, Min, Max and First.
C12_EmptyRanks ==
    (op = "ranks" /\ Len(pre) = 0) => status = "ok" /\ rankv = <<>>

\* C13: after sort(values, indices) returns, values is in ascending order, for
\* every NaN-free input and every length (n <= 2, 3 <= n <= 10, n > 10): sort
\* returns and leaves the buffer sorted.
C13_SortAscending ==
    (op = "sort" /\ Len(arg) = Len(pre)) => status = "ok" /\ IsSortedAsc(data)

\* C15: the value array and the index array are reordered in lockstep: on
\* return from sort, quick_sort or quick_sort_all with indices initialised to
\* 0..n, values[i] is the value the buffer originally held at indices[i].
C15_Lockstep ==
    (op \in {"sort", "quick_sort", "quick_sort_all"}
        /\ arg = Identity(Len(pre)) /\ status # "ub") =>
        /\ Len(index) = Len(pre)
        /\ Len(data) = Len(pre)
        /\ \A i \in 1..Len(pre) : InRange(pre, index[i]) /\ data[i] = At(pre, index[i])

C15_Witness ==
    /\ op \in {"sort", "quick_sort", "quick_sort_all"} /\ status = "ok"
    /\ arg = Identity(Len(pre)) /\ Len(pre) >= 3
    /\ HasDuplicates(pre) /\ data # pre /\ index # arg
    /\ \A i \in 1..Len(pre) : data[i] = At(pre, index[i])

\* s holds every index in 0..n exactly once
IsIndexPermutation(s, n) == Len(s) = n /\ {s[i] : i \in 1..Len(s)} = 0..(n - 1)

\* C14 as stated: the index array ranks() creates as 0..n is a permutation of
\* 0..n at every step during sort (the insertion-sort shifting loop included),
\* quick_sort and quick_sort_all, and on return.
C14_IndexAlwaysPermutation ==
    op \in {"sort", "quick_sort_all"} => IsIndexPermutation(index, Len(pre))

\* C14 as amended: the index array is a permutation of 0..n at every step of
\* quick_sort and quick_sort_all, at every step of sort outside the insertion
\* of a key, and on return; while a key is being inserted, from the first shift
\* until its index is stored, the array holds one index twice and lacks the
\* key's index, which the local `item` holds: with item written at j + 1 it is
\* a permutation.
C14_IndexPermutationOutsideShift ==
    op \in {"sort", "quick_sort_all"} =>
        IF run.pc = "while"
        THEN /\ InRange(index, run.j + 1)
             /\ IsIndexPermutation(Put(index, run.j + 1, run.item), Len(pre))
             /\ (run.j < run.i - 1) <=> ~IsIndexPermutation(index, Len(pre))
        ELSE IsIndexPermutation(index, Len(pre))

C14_Witness ==
    /\ op = "sort" /\ Running("while")
    /\ run.j < run.i - 1 /\ run.j >= 0
    /\ ~IsIndexPermutation(index, Len(pre))
    /\ IsIndexPermutation(Put(index, run.j + 1, run.item), Len(pre))

\* C16: covariance, population_covariance, sort, quick_sort and quick_sort_all
\* panic whenever their two sequences differ in length; the length check comes
\* first, so no value is returned (not even the NaN sentinel for empty or
\* single-element data) and neither sequence is modified.
C16_LengthMismatchPanics ==
    /\ (op \in {"covariance", "population_covariance"} /\ Len(arg) # Len(pre)) =>
           status = "panic" /\ data = pre
    /\ (op \in {"sort", "quick_sort", "quick_sort_all"} /\ Len(arg) # Len(pre)) =>
           status = "panic" /\ data = pre /\ index = arg

C16_Witness ==
    /\ op = "covariance" /\ status = "panic"
    /\ Len(pre) = 1 /\ Len(arg) = 2 /\ data = pre

\* C17: on an empty slice min, max, mean, quadratic_mean, variance,
\* population_variance, covariance and population_covariance (equal lengths)
\* return NaN; variance and covariance return NaN for exactly one element too;
\* population_variance and population_covariance of one finite element do not.
C17_NaNSentinels ==
    /\ (op \in {"min", "max", "mean", "quadratic_mean", "variance",
                "population_variance"} /\ Len(pre) = 0) =>
           status = "ok" /\ IsNaN(ret)
    /\ (op \in {"covariance", "population_covariance"}
           /\ Len(pre) = 0 /\ Len(arg) = 0) => status = "ok" /\ IsNaN(ret)
    /\ (op = "variance" /\ Len(pre) = 1) => status = "ok" /\ IsNaN(ret)
    /\ (op = "covariance" /\ Len(pre) = 1 /\ Len(arg) = 1) => status = "ok" /\ IsNaN(ret)
    /\ (op = "population_variance" /\ Len(pre) = 1 /\ AllFinite(pre)) =>
           status = "ok" /\ ~IsNaN(ret)
    /\ (op = "population_covariance" /\ Len(pre) = 1 /\ Len(arg) = 1
           /\ AllFinite(pre) /\ AllFinite(arg)) => status = "ok" /\ ~IsNaN(ret)

C17_Witness ==
    /\ op = "population_variance" /\ status = "ok"
    /\ Len(pre) = 1 /\ AllFinite(pre) /\ pre[1] # 0 /\ ret = 0

UniformQueries ==
    {"sample", "cdf", "pdf", "min", "max", "mean", "variance", "std_dev",
     "skewness", "median", "mode"}

\* C18: Uniform::new(min, max) returns BadParams if and only if min > max or
\* min or max is NaN; otherwise a Uniform whose min() and max() are the
\* arguments: every Uniform that exists has min <= max and no NaN bound, and no
\* query method changes it.
C18_UniformNewValidates ==
    /\ op = "new" =>
          /\ (status = "BadParams") <=>
                 (FGt(arg[1], arg[2]) \/ IsNaN(arg[1]) \/ IsNaN(arg[2]))
          /\ status = "BadParams" => ~uni.made
          /\ status # "BadParams" =>
                 /\ status = "ok" /\ uni.made
                 /\ uni.min = arg[1]
                 /\ uni.max = arg[2]
    /\ uni.made => FLe(uni.min, uni.max) /\ ~IsNaN(uni.min) /\ ~IsNaN(uni.max)
    /\ op \in UniformQueries => uni = pre /\ uni.made
    /\ (op = "min" => ret = uni.min) /\ (op = "max" => ret = uni.max)

C18_Witness ==
    /\ op \in UniformQueries /\ calls >= 2
    /\ uni.made /\ uni = pre /\ uni.min = uni.max

\* C19: for every constructed Uniform (min == max included) and every x, cdf(x)
\* is 0.0 if x < min, 1.0 if x >= max, and (x - min) / (max - min) for
\* min <= x < max.
C19_UniformCdf ==
    op = "cdf" =>
        /\ status = "ok"
        /\ FLt(arg, uni.min) => ret = 0
        /\ FGe(arg, uni.max) => ret = FromInt(1)
        /\ (FLe(uni.min, arg) /\ FLt(arg, uni.max)) =>
               ret = FDiv(FSub(arg, uni.min), FSub(uni.max, uni.min))

\* C20: for every constructed Uniform with finite bounds and every behaviour of
\* the random source, sample() returns a value in [min, max].
C20_UniformSampleInRange ==
    (op = "sample" /\ ~IsInf(uni.min) /\ ~IsInf(uni.max)) =>
        status = "ok" /\ FLe(uni.min, ret) /\ FLe(ret, uni.max)

\* C23 as stated: after select_inplace(buffer, rank) returns, on a non-empty
\* NaN-free buffer with rank in [0, len-1], buffer[rank] holds the value
\* returned.
C23_RankHoldsReturned ==
    op = "select_inplace" => status = "ok" /\ At(data, arg) = ret

\* C23 amended: the value returned is the rank-th order statistic; for rank in
\* [1, len-1] buffer[rank] holds it; for rank = 0 the minimum is returned from
\* a scan that leaves the buffer exactly as it was.
C23_RankHoldsReturnedAboveZero ==
    op = "select_inplace" =>
        /\ status = "ok"
        /\ ret = KthSmallest(pre, arg)
        /\ arg >= 1 => At(data, arg) = ret
        /\ arg = 0 => data = pre

C23_Witness ==
    /\ op = "select_inplace" /\ status = "ok"
    /\ Len(pre) >= 3 /\ arg = Len(pre) - 1
    /\ At(pre, arg) # ret /\ At(data, arg) = ret /\ data # pre

\* the window [c.left, c.right] lies in [run.left, run.right] and is shorter
ShorterWindow(c) ==
    /\ run.left <= c.left
    /\ AsIsize(c.right) <= AsIsize(run.right)
    /\ AsIsize(c.right) - c.left < run.right - run.left

\* the number of statements a call on n elements may take
StepBound(n) == (n + 1) * (n + 1)

C24_IndicesInRange ==
    /\ Running("select") => 0 <= run.left /\ run.right <= Len(data) - 1
    /\ Running("while") =>
          /\ InRange(data, run.i)
          /\ run.j >= 0 => InRange(data, run.j) /\ InRange(data, run.j + 1)
          /\ ~InsGoesOn => InRange(data, InsertSlot(run.j).val)
    /\ Running("loop") =>
          InRange(data, run.left) /\ InRange(data, QsMiddle) /\ InRange(data, run.right)
    /\ Running("scan_a") =>
          InRange(data, run.a) /\ run.left <= run.a /\ run.a <= run.right
    /\ Running("scan_b") =>
          InRange(data, run.b) /\ run.left <= run.b /\ run.b <= run.right
    /\ (Running("cross") /\ run.a < run.b) =>
          InRange(data, run.a) /\ InRange(data, run.b)
    /\ status # "ub"

\* C25: for every input length n >= 0, no usize addition or subtraction a
\* statement of sort, quick_sort, quick_sort_all or ranks is about to make
\* leaves [0, 2^w - 1]: `n - 1` in ranks, `b - a`, `a += 1`, `b -= 1` in the
\* quick sorts, `j as usize + 1` in the insertion sort.
C25_NoUsizeOverflow ==
    /\ op = "quick_sort_all" => ~USub(Len(pre), 1).ovf
    /\ Running("loop") => ~USub(run.right, run.left).ovf
    /\ (Running("scan_a") /\ InRange(data, run.a)
          /\ BelowPivot(At(data, run.a), At(index, run.a), run.pivot1, run.pivot2, run.all))
       => ~UAdd(run.a, 1).ovf
    /\ (Running("scan_b") /\ InRange(data, run.b)
          /\ AbovePivot(At(data, run.b), At(index, run.b), run.pivot1, run.pivot2, run.all))
       => ~USub(run.b, 1).ovf
    /\ (Running("cross") /\ run.a <= run.b) =>
          ~UAdd(run.a, 1).ovf /\ ~StepDown(run.b).ovf
    /\ (Running("while") /\ ~InsGoesOn) => ~InsertSlot(run.j).ovf

HasNaN(s) == \E i \in 1..Len(s) : IsNaN(s[i])

\* C22: on a buffer that holds NaN or an infinity, select_inplace, sort,
\* quick_sort and quick_sort_all (handed slices of one length) come to an end
\* without a read or write outside the buffer, and min() and max() return NaN
\* whenever some element is NaN.
C22_NonFiniteSafe ==
    /\ op = "select_inplace" => status = "ok"
    /\ (op \in {"sort", "quick_sort", "quick_sort_all"} /\ Len(arg) = Len(pre)) =>
          status = "ok"
    /\ (op \in {"min", "max"} /\ HasNaN(pre)) => status = "ok" /\ IsNaN(ret)

\* s and t hold the same values, each the same number of times
SameBag(s, t) ==
    /\ Len(s) = Len(t)
    /\ \A i \in 1..Len(s) :
          Cardinality({j \in 1..Len(s) : s[j] = s[i]})
              = Cardinality({j \in 1..Len(t) : t[j] = s[i]})

Destructive ==
    {"select_inplace", "order_statistic", "median", "quantile", "percentile",
     "lower_quartile", "upper_quartile", "interquartile_range", "ranks",
     "sort", "quick_sort", "quick_sort_all"}

\* C26: after select_inplace, order_statistic, median, quantile, percentile, a
\* quartile function, sort, quick_sort, quick_sort_all or ranks returns, the
\* buffer has the length and the multiset of values it had before the call.
C26_OnlyPermutes ==
    (op \in Destructive /\ status = "ok") => SameBag(pre, data)

C26_Witness ==
    /\ op \in {"quantile", "interquartile_range"} /\ status = "ok"
    /\ Len(pre) >= 4 /\ HasDuplicates(pre)
    /\ data # pre /\ SameBag(pre, data)

\* the value the call op(a) returns on the buffer s
FreshCall(name, a, s) ==
    CASE name = "order_statistic" -> OrderStatistic(s, a, TRUE).ret
      [] name = "median" -> Median(s, TRUE).ret
      [] name = "quantile" -> Quantile(s, a, TRUE).ret
      [] name = "percentile" -> Percentile(s, a, TRUE).ret
      [] name = "lower_quartile" -> LowerQuartile(s, TRUE).ret
      [] name = "upper_quartile" -> UpperQuartile(s, TRUE).ret
      [] name = "interquartile_range" -> InterquartileRange(s, TRUE).ret

Estimators ==
    {"order_statistic", "median", "quantile", "percentile", "lower_quartile",
     "upper_quartile", "interquartile_range"}

\* C27: in a sequence of order_statistic, median, quantile, percentile,
\* lower_quartile, upper_quartile and interquartile_range calls on one
\* non-empty NaN-free buffer, each call returns what the same call returns on
\* a fresh copy of the original buffer, however the earlier calls reordered it.
C27_SameAsOnFreshCopy ==
    (op \in Estimators /\ Len(orig) >= 1) =>
        /\ status = "ok"
        /\ ret = FreshCall(op, arg, orig)

C27_Witness ==
    /\ op \in Estimators /\ status = "ok" /\ calls = 2
    /\ pre # orig /\ Len(orig) >= 3
    /\ ~IsNaN(ret) /\ ret = FreshCall(op, arg, orig)
    /\ ret # FreshCall("median", 0, orig)

\* the rank vector policy tb returns on the buffer s
RanksBy(s, tb) == Ranks(s, tb, TRUE).ret

\* the relations of C28 between the vector r of one policy and the Min and Max
\* vectors of the same buffer s
RanksBetween(s, r) ==
    \A j \in 1..Len(s) :
        FLe(RanksBy(s, "Min")[j], r[j]) /\ FLe(r[j], RanksBy(s, "Max")[j])

\* C28: on every NaN-free input each of the four policies returns a rank
\* vector; at every position Min <= Average <= Max and Min <= First <= Max; the
\* four vectors coincide exactly when no value is repeated; under Average, Min
\* and Max equal values get equal ranks and a smaller value a smaller rank.
C28_PoliciesOrdered ==
    op = "ranks" =>
        /\ status = "ok"
        /\ Len(rankv) = Len(pre)
        /\ \A tb \in TieBreakers, dbg \in BOOLEAN : Ranks(pre, tb, dbg).fault = "none"
        /\ RanksBetween(pre, rankv)
        /\ (\A tb \in TieBreakers : RanksBy(pre, tb) = rankv) <=> ~HasDuplicates(pre)
        /\ arg # "First" =>
              \A i, j \in 1..Len(pre) :
                  /\ pre[i] = pre[j] => rankv[i] = rankv[j]
                  /\ FLt(pre[i], pre[j]) => FLt(rankv[i], rankv[j])

=============================================================================
